---- MODULE Spec2Model ----
(***************************************************************************)
(* Vehicle registration service (app.py, models.py): the store of          *)
(* customers and vehicles, the session, and the register / edit / delete   *)
(* request handlers with their validators.                                 *)
(*                                                                         *)
(* Strings are sequences of one-character strings, so that normalisation,  *)
(* trimming, case folding and the regular expressions are computed         *)
(* character by character as the code does.  A nullable column holds       *)
(* NULL (the empty tuple) or Some(s) (a one-element tuple).                *)
(***************************************************************************)
EXTENDS Integers, Sequences, FiniteSets, TLC

VARIABLES vehicles, customers, nextVehicleId, nextCustomerId, session, last,
          registered, pending, phone_input, phone_error

vars == <<vehicles, customers, nextVehicleId, nextCustomerId, session, last,
          registered, pending, phone_input, phone_error>>

\* the register requests in flight, and the argument and result of a
\* validate_phone call
inflight == <<pending, phone_input, phone_error>>

----------------------------------------------------------------------------
(* Bounds of the model *)

\* ids handed out by the vehicles / customers sequences are capped
MaxVehicleId == 2
MaxCustomerId == 2

\* register requests that can be in flight at the same time
MaxInFlight == 2

\* the longest run of digits submitted to validate_phone
MaxRunLength == 10

\* datetime.now().date() as a day ordinal; the date inputs are relative to it
Today == 8000

----------------------------------------------------------------------------
(* Characters and strings *)

LowerLetters == <<"a","b","c","d","e","f","g","h","i","j","k","l","m",
                  "n","o","p","q","r","s","t","u","v","w","x","y","z">>
UpperLetters == <<"A","B","C","D","E","F","G","H","I","J","K","L","M",
                  "N","O","P","Q","R","S","T","U","V","W","X","Y","Z">>
Digits == <<"0","1","2","3","4","5","6","7","8","9">>

Range(s) == { s[i] : i \in DOMAIN s }

IsLower(c) == c \in Range(LowerLetters)
IsUpper(c) == c \in Range(UpperLetters)
IsAlpha(c) == IsLower(c) \/ IsUpper(c)
IsDigit(c) == c \in Range(Digits)

IndexOf(c, s) == CHOOSE i \in DOMAIN s : s[i] = c

\* int(c) for a digit character
DigitValue(c) == IndexOf(c, Digits) - 1

UpperChar(c) == IF IsLower(c) THEN UpperLetters[IndexOf(c, LowerLetters)] ELSE c
LowerChar(c) == IF IsUpper(c) THEN LowerLetters[IndexOf(c, UpperLetters)] ELSE c

\* str.upper(), str.lower()
Upper(s) == [i \in DOMAIN s |-> UpperChar(s[i])]
Lower(s) == [i \in DOMAIN s |-> LowerChar(s[i])]

NotSpace(c) == c # " "
NotDash(c) == c # "-"

\* s.replace(" ", "").replace("-", "") without the .upper()
CleanKeepCase(s) == SelectSeq(SelectSeq(s, NotSpace), NotDash)

\* s.replace(" ", "").replace("-", "").upper()
Clean(s) == Upper(SelectSeq(SelectSeq(s, NotSpace), NotDash))

\* str.strip(): leading and trailing whitespace removed
Strip(s) ==
    LET keep == { i \in DOMAIN s : s[i] # " " }
    IN  IF keep = {} THEN <<>>
        ELSE LET lo == CHOOSE i \in keep : \A j \in keep : i <= j
                 hi == CHOOSE i \in keep : \A j \in keep : j <= i
             IN  SubSeq(s, lo, hi)

\* truthiness of a form value: a non-empty string
Truthy(s) == s # <<>>

\* nullable column values
NULL == <<>>
Some(s) == <<s>>

----------------------------------------------------------------------------
(* Field validators.  A validator returns its error message, or NoError    *)
(* (Python's None).                                                        *)

NoError == ""

\* is_sequential(digits)
is_sequential_cyclic(digits) ==
    IF Len(digits) < 4 THEN FALSE
    ELSE LET ascending == \A i \in 2..Len(digits) :
                              DigitValue(digits[i]) = (DigitValue(digits[i-1]) + 1) % 10
             descending == \A i \in 2..Len(digits) :
                              DigitValue(digits[i-1]) = (DigitValue(digits[i]) + 1) % 10
         IN  ascending \/ descending

\* is_sequential(digits)
is_sequential(digits) ==
    IF Len(digits) < 4 THEN FALSE
    ELSE LET ascending == \A i \in 2..Len(digits) :
                              DigitValue(digits[i]) = DigitValue(digits[i-1]) + 1
             descending == \A i \in 2..Len(digits) :
                              DigitValue(digits[i]) = DigitValue(digits[i-1]) - 1
         IN  ascending \/ descending

\* the character classes of email_regex
IsLocalChar(c) == IsAlpha(c) \/ IsDigit(c) \/ c \in {".", "_", "%", "+", "-"}
IsDomainChar(c) == IsAlpha(c) \/ IsDigit(c) \/ c \in {".", "-"}

\* [a-zA-Z0-9.-]+\.[a-zA-Z]{2,}$ on the part after the "@"
DomainMatches(dom) ==
    \E k \in DOMAIN dom :
        /\ dom[k] = "."
        /\ k > 1
        /\ \A i \in 1..(k-1) : IsDomainChar(dom[i])
        /\ Len(dom) - k >= 2
        /\ \A i \in (k+1)..Len(dom) : IsAlpha(dom[i])

\* re.match(email_regex, email)
EmailRegexMatches(email) ==
    \E at \in DOMAIN email :
        /\ email[at] = "@"
        /\ at > 1
        /\ \A i \in 1..(at-1) : IsLocalChar(email[i])
        /\ DomainMatches(SubSeq(email, at+1, Len(email)))

test_at_test == <<"t","e","s","t","@","t","e","s","t",".","c","o","m">>
admin_at_admin == <<"a","d","m","i","n","@","a","d","m","i","n",".","c","o","m">>
user_at_user == <<"u","s","e","r","@","u","s","e","r",".","c","o","m">>
example_at_example == <<"e","x","a","m","p","l","e","@","e","x","a","m","p","l","e",".","c","o","m">>

suspicious == {test_at_test, admin_at_admin, user_at_user, example_at_example}

NotLocalPunct(c) == c \notin {".", "_", "-"}

\* validate_email(email)
validate_email(email) ==
    IF ~EmailRegexMatches(email) THEN "Invalid email format."
    ELSE
    LET at == CHOOSE i \in DOMAIN email : email[i] = "@"
        local == SubSeq(email, 1, at - 1)
        domain == SubSeq(email, at + 1, Len(email))
        clean_local == SelectSeq(local, NotLocalPunct)
        unique_chars == Cardinality(Range(clean_local))
        dots == { i \in DOMAIN domain : domain[i] = "." }
        lastDot == CHOOSE i \in dots : \A j \in dots : j <= i
        tld == SubSeq(domain, lastDot + 1, Len(domain))
    IN  IF Len(local) = 0 \/ Len(local) > 64
            THEN "Email username too long or empty."
        ELSE IF Len(domain) = 0 \/ Len(domain) > 255
            THEN "Email domain too long or empty."
        ELSE IF Lower(email) \in suspicious
            THEN "This email address is not allowed."
        ELSE IF unique_chars <= 2 /\ Len(local) > 3
            THEN "Email username looks suspicious."
        ELSE IF dots = {}
            THEN "Invalid domain format."
        ELSE IF Len(tld) < 2 \/ \E i \in DOMAIN tld : ~IsAlpha(tld[i])
            THEN "Invalid domain extension."
        ELSE NoError

invalid_patterns == { <<"1","2","3","4","5","6","7","8","9","0">>,
                      <<"0","9","8","7","6","5","4","3","2","1">> }

\* validate_phone(phone)
validate_phone(phone) ==
    LET digits == SelectSeq(phone, IsDigit)
        unique_digits == Cardinality(Range(digits))
    IN  IF Len(digits) < 7 \/ Len(digits) > 15
            THEN "Phone number must be 7-15 digits."
        ELSE IF unique_digits = 1
            THEN "Phone number cannot be all same digits."
        ELSE IF is_sequential(digits)
            THEN "Phone number cannot be sequential digits."
        ELSE IF digits \in invalid_patterns
            THEN "Invalid phone number pattern."
        ELSE NoError

\* ^[A-Z]{2}[0-9]{2}[A-Z]{1,2}[0-9]{4}$
VehiclePatternMatches(s) ==
    /\ Len(s) \in {9, 10}
    /\ IsUpper(s[1]) /\ IsUpper(s[2])
    /\ IsDigit(s[3]) /\ IsDigit(s[4])
    /\ \A i \in 5..(Len(s) - 4) : IsUpper(s[i])
    /\ \A i \in (Len(s) - 3)..Len(s) : IsDigit(s[i])

\* validate_vehicle_number(vehicle_no)
validate_vehicle_number(vehicle_no) ==
    LET clean_vehicle_no == Clean(vehicle_no)
    IN  IF ~VehiclePatternMatches(clean_vehicle_no)
            THEN "Invalid Vehicle Number format"
        ELSE NoError

----------------------------------------------------------------------------
(* Form values and rows *)

\* the issue_date form field: empty, not parseable by strptime, or the
\* text of the date with day ordinal d
EmptyDateStr == [text |-> "empty", day |-> 0]
BadDateStr == [text |-> "bad", day |-> 0]
DateStr(d) == [text |-> "date", day |-> d]

\* timedelta(days=7300)
TwentyYears == 7300

\* the FranchiseOwner accounts on file (created by franchise_signup)
FranchiseOwners == { [id |-> 1, franchise_id |-> 1],
                     [id |-> 2, franchise_id |-> 2] }

NoSession == [k \in {} |-> 0]
LoggedIn == "franchise_id" \in DOMAIN session

\* Query.first() has no ORDER BY: any matching row may be returned
First(rows) == IF rows = {} THEN {NULL} ELSE { Some(r) : r \in rows }

Opt(cond, msg) == IF cond THEN <<msg>> ELSE <<>>

Response(op, vid, branch, flashes) ==
    [op |-> op, vid |-> vid, branch |-> branch, flashes |-> flashes]

\* the part of a handler's outcome that is written to the store
Outcome(vs, cs, nv, nc, resp) ==
    [vehicles |-> vs, customers |-> cs, nextVehicleId |-> nv,
     nextCustomerId |-> nc, last |-> resp]

\* the vehicle belongs to some franchise, not compared with the session's
AnyFranchise(vehicle) ==
    vehicle.franchise_id \in { o.franchise_id : o \in FranchiseOwners }

\* the session's franchise is the franchise of the vehicle
SameFranchise(vehicle) == vehicle.franchise_id = session.franchise_id

\* the count taken without the edited vehicle
NoOtherVehicleCounted(old_customer_vehicle_count) == old_customer_vehicle_count = 0

\* the count not compared with 1
AnyVehicleCount(old_customer_vehicle_count) == old_customer_vehicle_count >= 1

\* old_customer_vehicle_count == 1
OnlyVehicleOfOwner(old_customer_vehicle_count) == old_customer_vehicle_count = 1

NoWrite(resp) == Outcome(vehicles, customers, nextVehicleId, nextCustomerId, resp)

RequiredFilled(req) ==
    /\ Truthy(req.customer_name) /\ Truthy(req.customer_email)
    /\ Truthy(req.customer_phone) /\ Truthy(req.registration_number)
    /\ req.brand # "" /\ req.model # "" /\ req.issue_date.text # "empty"

EmailErrors(req) ==
    Opt(Truthy(req.customer_email) /\ validate_email(req.customer_email) # NoError,
        validate_email(req.customer_email))

PhoneErrors(req) ==
    Opt(Truthy(req.customer_phone) /\ validate_phone(req.customer_phone) # NoError,
        validate_phone(req.customer_phone))

\* vehicle_no and vehicle_no.strip()
VehicleNoGiven(req) == Truthy(req.vehicle_no) /\ Truthy(Strip(req.vehicle_no))

\* the issue-date block with the twenty-year boundary itself rejected
IssueDateErrorsExclusive(req, badMsg) ==
    IF req.issue_date.text = "empty" THEN <<>>
    ELSE IF req.issue_date.text = "bad" THEN <<badMsg>>
    ELSE LET issue_date == req.issue_date.day
             twenty_years_ago == Today - TwentyYears
         IN  Opt(issue_date > Today, "Issue date cannot be in the future!")
             \o Opt(issue_date <= twenty_years_ago,
                    "Issue date cannot be more than 20 years old!")

\* the issue-date block; badMsg is the handler's message for ValueError
IssueDateErrors(req, badMsg) ==
    IF req.issue_date.text = "empty" THEN <<>>
    ELSE IF req.issue_date.text = "bad" THEN <<badMsg>>
    ELSE LET issue_date == req.issue_date.day
             twenty_years_ago == Today - TwentyYears
         IN  Opt(issue_date > Today, "Issue date cannot be in the future!")
             \o Opt(issue_date < twenty_years_ago,
                    "Issue date cannot be more than 20 years old!")

\* the name-consistency block, given the rows the two first() calls returned
ConsistencyErrors(req, by_email, by_phone) ==
    IF Truthy(req.customer_email) /\ Truthy(req.customer_phone)
       /\ Truthy(req.customer_name)
    THEN Opt(by_email # NULL
               /\ Lower(by_email[1].name) # Lower(req.customer_name),
             "Check the details properly - Email is registered with a different name")
         \o Opt(by_phone # NULL
               /\ Lower(by_phone[1].name) # Lower(req.customer_name),
             "Check the details properly - Phone is registered with a different name")
    ELSE <<>>

\* the customer query with the name compared as typed
MatchingCustomersExactName(req) ==
    { c \in customers : /\ c.name = req.customer_name
                        /\ c.email = req.customer_email
                        /\ c.phone = req.customer_phone }

\* Customer.query.filter(lower(name) == ..., email == ..., phone == ...)
MatchingCustomers(req) ==
    { c \in customers : /\ Lower(c.name) = Lower(req.customer_name)
                        /\ c.email = req.customer_email
                        /\ c.phone = req.customer_phone }

\* clean_vehicle_no as stored by both handlers
StoredVehicleNo(req) ==
    IF VehicleNoGiven(req) THEN Some(Strip(req.vehicle_no)) ELSE NULL

----------------------------------------------------------------------------
(* POST /register *)

\* the error list of register_vehicle, in the order the code appends
RegisterErrors(req, by_email, by_phone) ==
    Opt(~RequiredFilled(req), "All required fields must be filled")
    \o EmailErrors(req)
    \o PhoneErrors(req)
    \o Opt(Truthy(req.registration_number)
             /\ \E v \in vehicles :
                    v.registration_number = Clean(req.registration_number),
           "Registration Number already exists!")
    \o (IF VehicleNoGiven(req)
        THEN IF validate_vehicle_number(req.vehicle_no) # NoError
             THEN <<validate_vehicle_number(req.vehicle_no)>>
             ELSE Opt(\E v \in vehicles :
                          v.vehicle_no = Some(Clean(req.vehicle_no)),
                      "Vehicle number already exists!")
        ELSE <<>>)
    \o IssueDateErrors(req, "Invalid issue date format")
    \o ConsistencyErrors(req, by_email, by_phone)

\* the possible error lists, over the rows first() may return
RegisterErrorLists(req) ==
    { RegisterErrors(req, e, p) :
        e \in First({ c \in customers : c.email = req.customer_email }),
        p \in First({ c \in customers : c.phone = req.customer_phone }) }

\* the writes of register with customer.id read before the customer is
\* committed: the new vehicle's owner_id is not the new customer's id
RegisterWritesUnflushedId(req, found) ==
    LET create == found = NULL
        customer == [id |-> nextCustomerId, name |-> req.customer_name,
                     email |-> req.customer_email, phone |-> req.customer_phone]
        vehicle == [id |-> nextVehicleId,
                    registration_number |-> Clean(req.registration_number),
                    vehicle_no |-> StoredVehicleNo(req),
                    brand |-> req.brand, model |-> req.model,
                    issue_date |-> req.issue_date.day,
                    franchise_id |-> session.franchise_id,
                    owner_id |-> IF create THEN 0 ELSE found[1].id]
    IN  Outcome(vehicles \cup {vehicle},
                IF create THEN customers \cup {customer} ELSE customers,
                nextVehicleId + 1,
                IF create THEN nextCustomerId + 1 ELSE nextCustomerId,
                Response("register", vehicle.id,
                         IF create THEN "customer_created" ELSE "customer_reused",
                         <<"Vehicle registered successfully!">>))

\* the customer and vehicle writes of an accepted register request
RegisterWrites(req, found) ==
    LET create == found = NULL
        customer == IF create
                    THEN [id |-> nextCustomerId, name |-> req.customer_name,
                          email |-> req.customer_email,
                          phone |-> req.customer_phone]
                    ELSE found[1]
        vehicle == [id |-> nextVehicleId,
                    registration_number |-> Clean(req.registration_number),
                    vehicle_no |-> StoredVehicleNo(req),
                    brand |-> req.brand, model |-> req.model,
                    issue_date |-> req.issue_date.day,
                    franchise_id |-> session.franchise_id,
                    owner_id |-> customer.id]
    IN  Outcome(vehicles \cup {vehicle},
                IF create THEN customers \cup {customer} ELSE customers,
                nextVehicleId + 1,
                IF create THEN nextCustomerId + 1 ELSE nextCustomerId,
                Response("register", vehicle.id,
                         IF create THEN "customer_created" ELSE "customer_reused",
                         <<"Vehicle registered successfully!">>))

\* register with the customer written before the error list is looked at
RegisterOutcomeCustomerFirst(req, errors, found) ==
    IF errors # <<>>
    THEN IF found = NULL
         THEN Outcome(vehicles,
                      customers \cup {[id |-> nextCustomerId,
                                       name |-> req.customer_name,
                                       email |-> req.customer_email,
                                       phone |-> req.customer_phone]},
                      nextVehicleId, nextCustomerId + 1,
                      Response("register", 0, "rejected", errors))
         ELSE NoWrite(Response("register", 0, "rejected", errors))
    ELSE RegisterWrites(req, found)

\* the outcome of a logged-in register request, given its error list and
\* the row the customer query returned
RegisterOutcome(req, errors, found) ==
    IF errors # <<>>
    THEN NoWrite(Response("register", 0, "rejected", errors))
    ELSE RegisterWrites(req, found)

\* every outcome register_vehicle can have for the request
register_vehicle(req) ==
    IF ~LoggedIn
    THEN { NoWrite(Response("register", 0, "login_required",
                            <<"Please login first!">>)) }
    ELSE { RegisterOutcome(req, errors, found) :
             errors \in RegisterErrorLists(req),
             found \in First(MatchingCustomers(req)) }

----------------------------------------------------------------------------
(* POST /vehicle/<vehicle_id>/edit *)

\* Vehicle.query.get(vehicle_id)
VehicleById(vid) == First({ v \in vehicles : v.id = vid })

\* vehicle.owner
OwnerOf(vehicle) == CHOOSE c \in customers : c.id = vehicle.owner_id

\* the error list of edit_vehicle, in the order the code appends
EditErrors(vehicle, req, by_email, by_phone) ==
    Opt(~RequiredFilled(req), "All required fields must be filled")
    \o EmailErrors(req)
    \o PhoneErrors(req)
    \o (IF VehicleNoGiven(req)
        THEN IF validate_vehicle_number(req.vehicle_no) # NoError
             THEN <<validate_vehicle_number(req.vehicle_no)>>
             ELSE Opt(/\ Some(Clean(req.vehicle_no)) # vehicle.vehicle_no
                      /\ \E v \in vehicles :
                             v.vehicle_no = Some(Clean(req.vehicle_no)),
                      "Vehicle number already exists!")
        ELSE <<>>)
    \o Opt(/\ Truthy(req.registration_number)
           /\ Clean(req.registration_number) # vehicle.registration_number
           /\ \E v \in vehicles :
                  v.registration_number = Clean(req.registration_number),
           "Registration Number already exists!")
    \o ConsistencyErrors(req, by_email, by_phone)
    \o IssueDateErrors(req, "Invalid issue date format!")

EditErrorLists(vehicle, req) ==
    { EditErrors(vehicle, req, e, p) :
        e \in First({ c \in customers : /\ c.email = req.customer_email
                                        /\ c.id # vehicle.owner_id }),
        p \in First({ c \in customers : /\ c.phone = req.customer_phone
                                        /\ c.id # vehicle.owner_id }) }

\* customer_changed
CustomerChanged(old_customer, req) ==
    \/ Lower(old_customer.name) # Lower(req.customer_name)
    \/ old_customer.email # req.customer_email
    \/ old_customer.phone # req.customer_phone

\* the row of the edited vehicle after the field assignments
EditedVehicle(vehicle, req, owner_id) ==
    [vehicle EXCEPT !.owner_id = owner_id,
                    !.registration_number = Clean(req.registration_number),
                    !.vehicle_no = StoredVehicleNo(req),
                    !.brand = req.brand,
                    !.model = req.model,
                    !.issue_date = req.issue_date.day]

\* db.session.commit() of the edit: the unique constraint on
\* vehicles.registration_number makes it fail, and the handler rolls back
EditCommit(vehicle, edited, cs, nc, branch) ==
    IF \E v \in vehicles \ {vehicle} :
           v.registration_number = edited.registration_number
    THEN NoWrite(Response("edit", vehicle.id, "commit_error",
                          <<"Error updating vehicle">>))
    ELSE Outcome((vehicles \ {vehicle}) \cup {edited}, cs, nextVehicleId, nc,
                 Response("edit", vehicle.id, branch,
                          <<"Vehicle updated successfully!">>))

\* the reconciliation of the owner and the writes of an accepted edit
EditWrites(vehicle, req, existing) ==
    LET old_customer == OwnerOf(vehicle)
        old_customer_vehicle_count ==
            Cardinality({ v \in vehicles : v.owner_id = old_customer.id })
        renamed == [old_customer EXCEPT !.name = req.customer_name,
                                        !.email = req.customer_email,
                                        !.phone = req.customer_phone]
        new_customer == [id |-> nextCustomerId, name |-> req.customer_name,
                         email |-> req.customer_email,
                         phone |-> req.customer_phone]
    IN  IF ~CustomerChanged(old_customer, req)
        THEN EditCommit(vehicle, EditedVehicle(vehicle, req, vehicle.owner_id),
                        customers, nextCustomerId, "owner_unchanged")
        ELSE IF existing # NULL
        THEN EditCommit(vehicle, EditedVehicle(vehicle, req, existing[1].id),
                        customers, nextCustomerId, "owner_repointed")
        ELSE IF OnlyVehicleOfOwner(old_customer_vehicle_count)
        THEN EditCommit(vehicle, EditedVehicle(vehicle, req, vehicle.owner_id),
                        (customers \ {old_customer}) \cup {renamed},
                        nextCustomerId, "owner_renamed")
        ELSE EditCommit(vehicle, EditedVehicle(vehicle, req, new_customer.id),
                        customers \cup {new_customer},
                        nextCustomerId + 1, "owner_split")

\* the outcome of a permitted edit request, given its error list and the
\* row the customer query returned
EditOutcome(vehicle, req, errors, existing) ==
    IF errors # <<>>
    THEN NoWrite(Response("edit", vehicle.id, "rejected", errors))
    ELSE EditWrites(vehicle, req, existing)

\* every outcome edit_vehicle can have for the request
edit_vehicle(vid, req) ==
    IF ~LoggedIn
    THEN { NoWrite(Response("edit", vid, "login_required",
                            <<"Please login first!">>)) }
    ELSE IF VehicleById(vid) = {NULL}
    THEN { NoWrite(Response("edit", vid, "not_found", <<"Vehicle not found!">>)) }
    ELSE LET vehicle == CHOOSE v \in vehicles : v.id = vid
         IN  IF ~SameFranchise(vehicle)
             THEN { NoWrite(Response("edit", vid, "forbidden",
                        <<"You don't have permission to edit this vehicle!">>)) }
             ELSE { EditOutcome(vehicle, req, errors, existing) :
                      errors \in EditErrorLists(vehicle, req),
                      existing \in First(MatchingCustomers(req)) }

----------------------------------------------------------------------------
(* POST /delete-vehicle/<vehicle_id> *)

delete_vehicle(vid) ==
    IF ~LoggedIn
    THEN NoWrite(Response("delete", vid, "login_required",
                          <<"Please login first!">>))
    ELSE IF VehicleById(vid) = {NULL}
    THEN NoWrite(Response("delete", vid, "not_found", <<"Vehicle not found!">>))
    ELSE LET vehicle == CHOOSE v \in vehicles : v.id = vid
         IN  IF ~SameFranchise(vehicle)
             THEN NoWrite(Response("delete", vid, "forbidden",
                      <<"You don't have permission to delete this vehicle!">>))
             ELSE Outcome(vehicles \ {vehicle}, customers, nextVehicleId,
                          nextCustomerId,
                          Response("delete", vid, "deleted",
                                   <<"Vehicle deleted successfully!">>))

----------------------------------------------------------------------------
(* POST /customer-lookup *)

\* both rows exist, owner not compared
BothFound(vehicle, customer) == vehicle.id > 0 /\ customer.id > 0

\* vehicle.owner_id != customer.id, negated
SameOwner(vehicle, customer) == vehicle.owner_id = customer.id

\* the answer of customer_lookup, given the rows the two first() calls returned
LookupAnswer(vehicle, customer) ==
    LET errors == Opt(vehicle = NULL, "Registration Number does not exist")
                  \o Opt(customer = NULL, "Registered Phone does not exist")
    IN  IF errors # <<>>
        THEN Response("lookup", 0, "not_exist", errors)
        ELSE IF ~SameOwner(vehicle[1], customer[1])
        THEN Response("lookup", 0, "mismatch",
                 <<"Registration Number and Phone do not match the same vehicle!">>)
        ELSE Response("lookup", vehicle[1].id, "shown", <<>>)

\* every answer customer_lookup can give
customer_lookup(registration_number, phone) ==
    IF ~Truthy(registration_number) \/ ~Truthy(phone)
    THEN { Response("lookup", 0, "fields_required",
                    <<"Both Registration Number and Phone are required!">>) }
    ELSE { LookupAnswer(vehicle, customer) :
             vehicle \in First({ v \in vehicles :
                                   v.registration_number = registration_number }),
             customer \in First({ c \in customers : c.phone = phone }) }

----------------------------------------------------------------------------
(* The requests *)

\* the writes of a handler's outcome
Apply(r) ==
    /\ r.nextVehicleId <= MaxVehicleId + 1
    /\ r.nextCustomerId <= MaxCustomerId + 1
    /\ vehicles' = r.vehicles
    /\ customers' = r.customers
    /\ nextVehicleId' = r.nextVehicleId
    /\ nextCustomerId' = r.nextCustomerId
    /\ last' = r.last
    /\ registered' = IF r.last.branch = "customer_created"
                     THEN registered \cup {nextCustomerId}
                     ELSE registered

Slots == 1..MaxInFlight

Idle == [pc |-> "idle"]

\* the empty store, nobody logged in, no request in flight
InitStore ==
    /\ vehicles = {}
    /\ customers = {}
    /\ nextVehicleId = 1
    /\ nextCustomerId = 1
    /\ session = NoSession
    /\ last = Response("none", 0, "none", <<>>)
    /\ registered = {}
    /\ pending = [p \in Slots |-> Idle]

Init ==
    /\ InitStore
    /\ phone_input = <<>>
    /\ phone_error = "unchecked"

\* POST /franchise/login with the credentials of owner, or with a wrong password
FranchiseLogin(owner, password_ok) ==
    /\ IF password_ok
       THEN /\ session' = [owner_id |-> owner.id,
                           franchise_id |-> owner.franchise_id]
            /\ last' = Response("login", 0, "logged_in",
                                <<"Logged in successfully">>)
       ELSE /\ session' = session
            /\ last' = Response("login", 0, "bad_credentials",
                                <<"Invalid credentials">>)
    /\ UNCHANGED <<vehicles, customers, nextVehicleId, nextCustomerId, registered>>
    /\ UNCHANGED inflight

\* GET /franchise-logout
FranchiseLogout ==
    /\ session' = NoSession
    /\ last' = Response("logout", 0, "logged_out", <<"Logged out successfully!">>)
    /\ UNCHANGED <<vehicles, customers, nextVehicleId, nextCustomerId, registered>>
    /\ UNCHANGED inflight

CustomerLookup(registration_number, phone) ==
    /\ last' \in customer_lookup(registration_number, phone)
    /\ UNCHANGED <<vehicles, customers, nextVehicleId, nextCustomerId, registered,
                   session>>
    /\ UNCHANGED inflight

\* the unique constraint of vehicles.registration_number left out
NoUniqueConstraint(registration_number) ==
    registration_number \in {} /\ vehicles = {}

\* the insert violates the unique constraint of vehicles.registration_number
UniqueViolation(registration_number) ==
    \E v \in vehicles : v.registration_number = registration_number

\* register_vehicle taken statement by statement, for requests that overlap:
\* request p passes the session check and collects its validation errors
RegisterCheck(p, req) ==
    /\ pending[p].pc = "idle"
    /\ IF ~LoggedIn
       THEN /\ last' = Response("register", 0, "login_required",
                                <<"Please login first!">>)
            /\ pending' = pending
       ELSE \E errors \in RegisterErrorLists(req) :
              IF errors # <<>>
              THEN /\ last' = Response("register", 0, "rejected", errors)
                   /\ pending' = pending
              ELSE /\ last' = last
                   /\ pending' = [pending EXCEPT ![p] =
                                     [pc |-> "checked", req |-> req,
                                      franchise_id |-> session.franchise_id]]
    /\ UNCHANGED <<vehicles, customers, nextVehicleId, nextCustomerId, registered,
                   session, phone_input, phone_error>>

\* request p looks for the customer with the submitted name, email and phone
RegisterFindCustomer(p) ==
    /\ pending[p].pc = "checked"
    /\ \E found \in First(MatchingCustomers(pending[p].req)) :
           pending' = [pending EXCEPT ![p] =
                         [pc |-> "customer", req |-> pending[p].req,
                          franchise_id |-> pending[p].franchise_id,
                          found |-> found]]
    /\ UNCHANGED <<vehicles, customers, nextVehicleId, nextCustomerId, registered,
                   session, last, phone_input, phone_error>>

\* request p commits a new customer if it found none
RegisterPersistCustomer(p) ==
    /\ pending[p].pc = "customer"
    /\ LET req == pending[p].req
           create == pending[p].found = NULL
           customer == IF create
                       THEN [id |-> nextCustomerId, name |-> req.customer_name,
                             email |-> req.customer_email,
                             phone |-> req.customer_phone]
                       ELSE pending[p].found[1]
       IN  /\ create => nextCustomerId <= MaxCustomerId
           /\ customers' = IF create THEN customers \cup {customer} ELSE customers
           /\ nextCustomerId' = IF create THEN nextCustomerId + 1
                                 ELSE nextCustomerId
           /\ registered' = IF create THEN registered \cup {customer.id}
                             ELSE registered
           /\ pending' = [pending EXCEPT ![p] =
                            [pc |-> "vehicle", req |-> req,
                             franchise_id |-> pending[p].franchise_id,
                             owner_id |-> customer.id, created |-> create]]
    /\ UNCHANGED <<vehicles, nextVehicleId, session, last, phone_input,
                   phone_error>>

\* request p commits its vehicle, or the commit raises on the unique
\* constraint and the request ends with nothing more written
RegisterPersistVehicle(p) ==
    /\ pending[p].pc = "vehicle"
    /\ LET req == pending[p].req
           vehicle == [id |-> nextVehicleId,
                       registration_number |-> Clean(req.registration_number),
                       vehicle_no |-> StoredVehicleNo(req),
                       brand |-> req.brand, model |-> req.model,
                       issue_date |-> req.issue_date.day,
                       franchise_id |-> pending[p].franchise_id,
                       owner_id |-> pending[p].owner_id]
       IN  IF UniqueViolation(vehicle.registration_number)
           THEN /\ vehicles' = vehicles
                /\ nextVehicleId' = nextVehicleId
                /\ last' = Response("register", 0, "insert_failed", <<>>)
           ELSE /\ nextVehicleId <= MaxVehicleId
                /\ vehicles' = vehicles \cup {vehicle}
                /\ nextVehicleId' = nextVehicleId + 1
                /\ last' = Response("register", vehicle.id,
                                    IF pending[p].created
                                    THEN "customer_created"
                                    ELSE "customer_reused",
                                    <<"Vehicle registered successfully!">>)
    /\ pending' = [pending EXCEPT ![p] = Idle]
    /\ UNCHANGED <<customers, nextCustomerId, registered, session, phone_input,
                   phone_error>>

\* one call of validate_phone on the submitted phone
ValidatePhone ==
    /\ phone_error = "unchecked"
    /\ phone_error' = validate_phone(phone_input)
    /\ UNCHANGED <<vehicles, customers, nextVehicleId, nextCustomerId, registered,
                   session, last, pending, phone_input>>

RegisterVehicle(req) ==
    /\ \E r \in register_vehicle(req) : Apply(r)
    /\ UNCHANGED <<session, inflight>>

EditVehicle(vid, req) ==
    /\ \E r \in edit_vehicle(vid, req) : Apply(r)
    /\ UNCHANGED <<session, inflight>>

DeleteVehicle(vid) ==
    /\ Apply(delete_vehicle(vid))
    /\ UNCHANGED <<session, inflight>>

----------------------------------------------------------------------------
(* The submitted values *)

al == <<"a","l">>
AL == <<"A","L">>
bob == <<"b","o","b">>

a_at_b_io == <<"a","@","b",".","i","o">>
c_at_d_io == <<"c","@","d",".","i","o">>
a_at_b == <<"a","@","b">>
Test_at_test == <<"T","e","s","t","@","t","e","s","t",".","c","o","m">>
aaaa_at_b_io == <<"a","a","a","a","@","b",".","i","o">>

ph9876501 == <<"9","8","7","6","5","0","1">>
ph555_0142 == <<"5","5","5","-","0","1","4","2">>
ph1234567 == <<"1","2","3","4","5","6","7">>
ph1111111 == <<"1","1","1","1","1","1","1">>
ph12345 == <<"1","2","3","4","5">>

KA1 == <<"K","A","1">>
ka_1 == <<"k","a","-","1">>
MH2 == <<"M","H","2">>
dash == <<"-">>

KA01AB1234 == <<"K","A","0","1","A","B","1","2","3","4">>
ka_01_ab1234 == <<"k","a"," ","0","1","-","a","b","1","2","3","4">>
TS07U4455_padded == <<" ","T","S","0","7","U","4","4","5","5"," ">>
TS7UC4455 == <<"T","S","7","U","C","4","4","5","5">>
blank == <<" "," ">>

Form(name, email, phone, reg, vno, brand, model, date) ==
    [customer_name |-> name, customer_email |-> email, customer_phone |-> phone,
     registration_number |-> reg, vehicle_no |-> vno,
     brand |-> brand, model |-> model, issue_date |-> date]

\* a form with every field filled and valid
Nominal == Form(al, a_at_b_io, ph9876501, KA1, <<>>, "Honda", "City", DateStr(Today))

\* forms that vary the registration number and the vehicle number
IdentifierForms ==
    { [Nominal EXCEPT !.registration_number = reg, !.vehicle_no = vno] :
        reg \in {KA1, ka_1, MH2},
        vno \in {<<>>, blank, KA01AB1234, ka_01_ab1234, TS07U4455_padded} }

\* forms that vary the customer
CustomerTriples ==
    { <<al, a_at_b_io, ph9876501>>, <<AL, a_at_b_io, ph9876501>>,
      <<bob, c_at_d_io, ph9876501>>, <<bob, a_at_b_io, ph555_0142>> }

CustomerForms ==
    { [Nominal EXCEPT !.customer_name = t[1], !.customer_email = t[2],
                      !.customer_phone = t[3], !.registration_number = reg] :
        t \in CustomerTriples, reg \in {KA1, MH2} }

\* forms with one field missing or invalid
FaultyForms ==
    { [Nominal EXCEPT !.customer_name = <<>>],
      [Nominal EXCEPT !.customer_email = <<>>],
      [Nominal EXCEPT !.customer_email = a_at_b],
      [Nominal EXCEPT !.customer_email = Test_at_test],
      [Nominal EXCEPT !.customer_email = aaaa_at_b_io],
      [Nominal EXCEPT !.customer_phone = <<>>],
      [Nominal EXCEPT !.customer_phone = ph1234567],
      [Nominal EXCEPT !.customer_phone = ph1111111],
      [Nominal EXCEPT !.customer_phone = ph12345],
      [Nominal EXCEPT !.registration_number = <<>>],
      [Nominal EXCEPT !.registration_number = dash],
      [Nominal EXCEPT !.vehicle_no = TS7UC4455],
      [Nominal EXCEPT !.brand = ""],
      [Nominal EXCEPT !.model = ""],
      [Nominal EXCEPT !.issue_date = EmptyDateStr],
      [Nominal EXCEPT !.issue_date = BadDateStr],
      [Nominal EXCEPT !.issue_date = DateStr(Today + 1)],
      [Nominal EXCEPT !.issue_date = DateStr(Today - TwentyYears)],
      [Nominal EXCEPT !.issue_date = DateStr(Today - TwentyYears - 1)],
      [Nominal EXCEPT !.customer_email = a_at_b, !.customer_phone = ph12345,
                      !.issue_date = DateStr(Today + 1)],
      [Nominal EXCEPT !.customer_name = bob, !.customer_phone = <<>>] }

VehicleIds == 1..MaxVehicleId

\* the requests of owners submitting forms
NextOn(owners, forms) ==
    \/ \E owner \in owners, password_ok \in BOOLEAN :
           FranchiseLogin(owner, password_ok)
    \/ FranchiseLogout
    \/ \E req \in forms : RegisterVehicle(req)
    \/ \E vid \in VehicleIds, req \in forms : EditVehicle(vid, req)
    \/ \E vid \in VehicleIds : DeleteVehicle(vid)

Owner1 == { o \in FranchiseOwners : o.id = 1 }

\* one franchise, forms varying the identifiers
NextIdent == NextOn(Owner1, IdentifierForms)
SpecIdent == Init /\ [][NextIdent]_vars

\* one franchise, forms varying the customer
NextCust == NextOn(Owner1, CustomerForms)
SpecCust == Init /\ [][NextCust]_vars

\* one franchise, valid and faulty forms
ValidationForms ==
    FaultyForms \cup {Nominal, [Nominal EXCEPT !.registration_number = MH2]}
NextValid == NextOn(Owner1, ValidationForms)
SpecValid == Init /\ [][NextValid]_vars

\* one franchise, customers sharing a phone, and the customer lookup
LookupTriples ==
    { <<al, a_at_b_io, ph9876501>>, <<al, c_at_d_io, ph9876501>>,
      <<bob, c_at_d_io, ph555_0142>> }

LookupForms ==
    { [Nominal EXCEPT !.customer_name = t[1], !.customer_email = t[2],
                      !.customer_phone = t[3], !.registration_number = reg] :
        t \in LookupTriples, reg \in {KA1, MH2} }

LookupNumbers == {KA1, ka_1, MH2, <<>>}
LookupPhones == {ph9876501, ph555_0142, <<>>}

NextLookup ==
    \/ NextOn(Owner1, LookupForms)
    \/ \E registration_number \in LookupNumbers, phone \in LookupPhones :
           CustomerLookup(registration_number, phone)
SpecLookup == Init /\ [][NextLookup]_vars

\* two franchises
AuthForms ==
    { Nominal, [Nominal EXCEPT !.registration_number = MH2],
      [Nominal EXCEPT !.customer_name = bob] }
NextAuth == NextOn(FranchiseOwners, AuthForms)
SpecAuth == Init /\ [][NextAuth]_vars

\* one franchise, register requests that overlap, submitting the same
\* registration number for different customers
RaceForms ==
    { [Nominal EXCEPT !.customer_name = t[1], !.customer_email = t[2],
                      !.customer_phone = t[3], !.registration_number = reg] :
        t \in { <<al, a_at_b_io, ph9876501>>, <<bob, c_at_d_io, ph555_0142>> },
        reg \in {KA1, ka_1} }

NextRace ==
    \/ \E owner \in Owner1, password_ok \in BOOLEAN :
           FranchiseLogin(owner, password_ok)
    \/ \E p \in Slots, req \in RaceForms : RegisterCheck(p, req)
    \/ \E p \in Slots : RegisterFindCustomer(p)
    \/ \E p \in Slots : RegisterPersistCustomer(p)
    \/ \E p \in Slots : RegisterPersistVehicle(p)
SpecRace == Init /\ [][NextRace]_vars

\* the digits start, start + step, start + 2 step, ... taken modulo 10
Run(start, len, step) ==
    [i \in 1..len |-> Digits[((start + step * (i - 1)) % 10) + 1]]

\* a run written with a dash after its third digit
Dashed(digits) == SubSeq(digits, 1, 3) \o <<"-">> \o SubSeq(digits, 4, Len(digits))

\* phones whose digits go up by one or down by one around the ten digits,
\* plain and dashed
PhoneRuns ==
    LET runs == { Run(start, len, step) :
                    start \in 0..9, len \in 4..MaxRunLength, step \in {1, 9} }
    IN  runs \cup { Dashed(r) : r \in runs }

InitPhone ==
    /\ InitStore
    /\ phone_input \in PhoneRuns
    /\ phone_error = "unchecked"

\* validate_phone applied to each of the phones
NextPhone == ValidatePhone
SpecPhone == InitPhone /\ [][NextPhone]_vars

----------------------------------------------------------------------------
(* Properties *)

Messages(resp) == Range(resp.flashes)

NotSeparator(c) == c \notin {" ", "-"}

\* s is in normalized form: upper-case, no spaces, no dashes
IsNormalized(s) == \A i \in DOMAIN s : NotSeparator(s[i]) /\ ~IsLower(s[i])

\* a and b are equal after normalization
SameIdentifier(a, b) ==
    Lower(SelectSeq(a, NotSeparator)) = Lower(SelectSeq(b, NotSeparator))

StoreUnchanged(r) == r.vehicles = vehicles /\ r.customers = customers

\* C1: no two stored vehicles have the same registration_number, every
\* stored registration_number is upper-case without spaces or dashes, and a
\* register request whose registration number normalizes to a stored one is
\* rejected with "Registration Number already exists!" and writes nothing.
C1_RegistrationNumberUnique ==
    /\ \A v, w \in vehicles :
           v.id # w.id => v.registration_number # w.registration_number
    /\ \A v \in vehicles : IsNormalized(v.registration_number)
    /\ LoggedIn =>
         \A req \in IdentifierForms :
            (\E v \in vehicles :
                 SameIdentifier(req.registration_number, v.registration_number))
            => \A r \in register_vehicle(req) :
                   /\ r.last.branch = "rejected"
                   /\ "Registration Number already exists!" \in Messages(r.last)
                   /\ StoreUnchanged(r)

\* a register request was rejected as a duplicate of a stored vehicle
C1_Witness ==
    /\ last.op = "register" /\ last.branch = "rejected"
    /\ "Registration Number already exists!" \in Messages(last)
    /\ vehicles # {}

\* C2 (as claimed): no two stored vehicles have vehicle_no values that are
\* equal after normalization.
C2_VehicleNoUnique ==
    \A v, w \in vehicles :
        (v.id # w.id /\ v.vehicle_no # NULL /\ w.vehicle_no # NULL)
        => ~SameIdentifier(v.vehicle_no[1], w.vehicle_no[1])

\* C3 (as claimed): every stored vehicle_no is NULL or a normalized string
\* of the shape 2 letters, 2 digits, 1-2 letters, 4 digits.
C3_VehicleNoNormalized ==
    \A v \in vehicles :
        \/ v.vehicle_no = NULL
        \/ /\ IsNormalized(v.vehicle_no[1])
           /\ VehiclePatternMatches(v.vehicle_no[1])

RejectedUnchanged(r, errors) ==
    /\ r.last.branch = "rejected"
    /\ r.last.flashes = errors
    /\ StoreUnchanged(r)
    /\ r.nextVehicleId = nextVehicleId /\ r.nextCustomerId = nextCustomerId

\* C4: a register or edit request whose validation collects at least one
\* error is rejected with the collected errors and writes nothing; and every
\* step whose response is a rejection leaves the vehicle and customer rows
\* as they were.
C4_ErrorsRejectState ==
    LoggedIn =>
      \A req \in ValidationForms :
        /\ \A errors \in RegisterErrorLists(req),
              found \in First(MatchingCustomers(req)) :
                errors # <<>>
                => RejectedUnchanged(RegisterOutcome(req, errors, found), errors)
        /\ \A vehicle \in vehicles :
             SameFranchise(vehicle) =>
               \A errors \in EditErrorLists(vehicle, req),
                  existing \in First(MatchingCustomers(req)) :
                    errors # <<>>
                    => RejectedUnchanged(
                           EditOutcome(vehicle, req, errors, existing), errors)

C4_RejectedWritesNothing ==
    /\ []C4_ErrorsRejectState
    /\ [][last'.branch = "rejected"
            => vehicles' = vehicles /\ customers' = customers]_vars

\* an edit of a stored vehicle was rejected with several errors
C4_Witness ==
    /\ last.op = "edit" /\ last.branch = "rejected"
    /\ Len(last.flashes) >= 2
    /\ vehicles # {} /\ customers # {}

EmailDifferentName == "Check the details properly - Email is registered with a different name"
PhoneDifferentName == "Check the details properly - Phone is registered with a different name"

\* C5 (as claimed): a register request whose email (phone) is the email
\* (phone) of a stored customer with a different name, compared without
\* case, is rejected with the "different name" error and writes nothing.
C5_DifferentNameRejected ==
    LoggedIn =>
      \A req \in CustomerForms :
        /\ (\E c \in customers : /\ c.email = req.customer_email
                                 /\ Lower(c.name) # Lower(req.customer_name))
           => \A r \in register_vehicle(req) :
                  /\ r.last.branch = "rejected"
                  /\ EmailDifferentName \in Messages(r.last)
                  /\ StoreUnchanged(r)
        /\ (\E c \in customers : /\ c.phone = req.customer_phone
                                 /\ Lower(c.name) # Lower(req.customer_name))
           => \A r \in register_vehicle(req) :
                  /\ r.last.branch = "rejected"
                  /\ PhoneDifferentName \in Messages(r.last)
                  /\ StoreUnchanged(r)

\* the identity triple of customer c is the submitted one
SameCustomer(c, req) ==
    /\ Lower(c.name) = Lower(req.customer_name)
    /\ c.email = req.customer_email
    /\ c.phone = req.customer_phone

Submitted(id, req) ==
    [id |-> id, name |-> req.customer_name, email |-> req.customer_email,
     phone |-> req.customer_phone]

VehiclesOf(cid) == { v \in vehicles : v.owner_id = cid }

\* the accepted outcomes of an edit of vehicle with form req
AcceptedEdits(vehicle, req) ==
    { EditOutcome(vehicle, req, <<>>, existing) :
        existing \in First(MatchingCustomers(req)) }

EditAccepted(vehicle, req) ==
    /\ LoggedIn /\ SameFranchise(vehicle)
    /\ <<>> \in EditErrorLists(vehicle, req)

\* C6: in an accepted edit whose submitted (name, email, phone) matches no
\* stored customer (names compared without case, so it differs from the
\* current owner), if the owner owns exactly one vehicle then the owner's
\* row is updated in place to the submitted values: same customer id, same
\* owner_id on the vehicle, no customer row created.
C6_RenameInPlace ==
    \A vehicle \in vehicles, req \in CustomerForms :
      ( /\ EditAccepted(vehicle, req)
        /\ ~\E c \in customers : SameCustomer(c, req)
        /\ Cardinality(VehiclesOf(vehicle.owner_id)) = 1 )
      => \A r \in AcceptedEdits(vehicle, req) :
           /\ r.customers = (customers \ {OwnerOf(vehicle)})
                              \cup {Submitted(vehicle.owner_id, req)}
           /\ Cardinality(r.customers) = Cardinality(customers)
           /\ r.nextCustomerId = nextCustomerId
           /\ \E v \in r.vehicles : v.id = vehicle.id
                                    /\ v.owner_id = vehicle.owner_id

\* an edit renamed the only customer in place
C6_Witness ==
    /\ last.op = "edit" /\ last.branch = "owner_renamed"
    /\ \E c \in customers : c.id = 1 /\ c.name = bob
    /\ nextCustomerId = 2
    /\ \E v \in vehicles : v.id = last.vid /\ v.owner_id = 1

\* C7: in an accepted edit whose submitted (name, email, phone) matches no
\* stored customer, if the owner owns two or more vehicles then exactly one
\* customer row with the submitted values is created, only the edited
\* vehicle is repointed to it, and the old customer row and every other
\* vehicle are unchanged.
C7_SplitOwner ==
    \A vehicle \in vehicles, req \in CustomerForms :
      ( /\ EditAccepted(vehicle, req)
        /\ ~\E c \in customers : SameCustomer(c, req)
        /\ Cardinality(VehiclesOf(vehicle.owner_id)) >= 2 )
      => \A r \in AcceptedEdits(vehicle, req) :
           /\ r.customers = customers \cup {Submitted(nextCustomerId, req)}
           /\ Cardinality(r.customers) = Cardinality(customers) + 1
           /\ OwnerOf(vehicle) \in r.customers
           /\ vehicles \ {vehicle} \subseteq r.vehicles
           /\ Cardinality(r.vehicles) = Cardinality(vehicles)
           /\ \E v \in r.vehicles : /\ v.id = vehicle.id
                                    /\ v.owner_id = nextCustomerId
                                    /\ v.owner_id # vehicle.owner_id

\* an edit split a customer of two vehicles: the edited vehicle has the new
\* customer, the other vehicle still has the old one
C7_Witness ==
    /\ last.op = "edit" /\ last.branch = "owner_split"
    /\ Cardinality(customers) = 2
    /\ \E v, w \in vehicles : /\ v.id = last.vid /\ w.id # last.vid
                              /\ v.owner_id = 2 /\ w.owner_id = 1

\* C8: no two stored customer rows have the same identity triple (name
\* compared without case, email, phone).
C8_CustomerIdentityUnique ==
    \A c, d \in customers :
        c.id # d.id => ~( /\ Lower(c.name) = Lower(d.name)
                          /\ c.email = d.email
                          /\ c.phone = d.phone )

\* a register request reused the matching customer row for a second vehicle
C8_Witness ==
    /\ last.op = "register" /\ last.branch = "customer_reused"
    /\ \E c \in customers : Cardinality(VehiclesOf(c.id)) = 2

LoginFirst == <<"Please login first!">>
NotFound == <<"Vehicle not found!">>
NoPermission == { <<"You don't have permission to edit this vehicle!">>,
                  <<"You don't have permission to delete this vehicle!">> }

\* what edit and delete of vehicle id vid can answer
EditOrDelete(vid, req) == edit_vehicle(vid, req) \cup {delete_vehicle(vid)}

C9_RefusalsState ==
    \A vid \in VehicleIds, req \in AuthForms :
      /\ ~LoggedIn =>
           \A r \in register_vehicle(req) \cup EditOrDelete(vid, req) :
               StoreUnchanged(r) /\ r.last.flashes = LoginFirst
      /\ (LoggedIn /\ ~\E v \in vehicles : v.id = vid) =>
           \A r \in EditOrDelete(vid, req) :
               StoreUnchanged(r) /\ r.last.flashes = NotFound
      /\ (LoggedIn /\ \E v \in vehicles : /\ v.id = vid
                                          /\ v.franchise_id # session.franchise_id) =>
           \A r \in EditOrDelete(vid, req) :
               StoreUnchanged(r) /\ r.last.flashes \in NoPermission

\* C9: register, edit and delete change the store only when the session
\* holds a franchise_id, and edit and delete only change a vehicle of the
\* session's franchise; without a session, or against another franchise's
\* vehicle, the request is refused and nothing changes; a missing vehicle id
\* is answered "Vehicle not found!", which is not the permission refusal.
C9_SessionGate ==
    /\ []C9_RefusalsState
    /\ [][(vehicles' # vehicles \/ customers' # customers)
            => /\ LoggedIn
               /\ last'.op \in {"register", "edit", "delete"}
               /\ last'.op \in {"edit", "delete"}
                    => \E v \in vehicles : /\ v.id = last'.vid
                                           /\ v.franchise_id = session.franchise_id
               /\ \A v \in (vehicles \ vehicles') \cup (vehicles' \ vehicles) :
                      v.franchise_id = session.franchise_id]_vars

\* a delete of another franchise's vehicle was refused
C9_Witness ==
    /\ last.op = "delete" /\ last.branch = "forbidden"
    /\ last.flashes \in NoPermission
    /\ \E v \in vehicles : v.id = last.vid /\ v.franchise_id # session.franchise_id

Owned(cid, vs) == \E v \in vs : v.owner_id = cid

Ids(rows) == { row.id : row \in rows }

\* C10 (as claimed): every customer row created by register is the owner of
\* at least one stored vehicle.
C10_RegisteredCustomerOwnsVehicle ==
    \A c \in customers : c.id \in registered => Owned(c.id, vehicles)

\* C10 (amended): a customer row owns a vehicle at the end of the request
\* that creates it; customer rows are never removed; and a customer comes
\* to own no vehicle only through a delete or an edit.
C10_OwnsVehicleWhenCreated ==
    [][/\ \A c \in customers' :
              c.id \notin Ids(customers) => Owned(c.id, vehicles')
       /\ Ids(customers) \subseteq Ids(customers')
       /\ \A c \in customers :
              (Owned(c.id, vehicles) /\ ~Owned(c.id, vehicles'))
              => last'.op \in {"delete", "edit"}]_vars

\* register created a customer, who owns the new vehicle
C10_Witness ==
    /\ last.op = "register" /\ last.branch = "customer_created"
    /\ \E c \in customers : /\ c.id \in registered
                            /\ \E v \in vehicles : v.id = last.vid
                                                   /\ v.owner_id = c.id

NoSuchNumber == "Registration Number does not exist"
NoSuchPhone == "Registered Phone does not exist"
NoMatch == "Registration Number and Phone do not match the same vehicle!"

C11_LookupState ==
    \A registration_number \in LookupNumbers, phone \in LookupPhones :
      \A r \in customer_lookup(registration_number, phone) :
        /\ r.branch = "shown" =>
             \E v \in vehicles, c \in customers :
                 /\ v.registration_number = registration_number
                 /\ c.phone = phone
                 /\ v.owner_id = c.id
                 /\ r.vid = v.id
        /\ r.branch # "shown" => r.vid = 0
        /\ (Truthy(registration_number) /\ Truthy(phone) /\ r.branch # "shown") =>
             LET no_number == ~\E v \in vehicles :
                                  v.registration_number = registration_number
                 no_phone == ~\E c \in customers : c.phone = phone
             IN  r.flashes = IF no_number \/ no_phone
                             THEN Opt(no_number, NoSuchNumber)
                                  \o Opt(no_phone, NoSuchPhone)
                             ELSE <<NoMatch>>

\* C11: a lookup shows a vehicle only if a stored vehicle has the submitted
\* registration number, a stored customer has the submitted phone and the
\* vehicle's owner_id is that customer's id; a lookup with both values that
\* shows nothing reports the number as not existing, the phone as not
\* existing, or the two as not matching, whichever applies; and a lookup
\* step never changes the store.
C11_LookupOnlyOwner ==
    /\ []C11_LookupState
    /\ [][last'.op = "lookup"
            => /\ vehicles' = vehicles /\ customers' = customers
               /\ nextVehicleId' = nextVehicleId
               /\ nextCustomerId' = nextCustomerId]_vars

\* a lookup showed a vehicle while another customer's vehicle is stored too
C11_Witness ==
    /\ last.op = "lookup" /\ last.branch = "shown"
    /\ \E v, w \in vehicles : /\ v.id = last.vid
                              /\ w.owner_id # v.owner_id

\* C17 (as claimed): for every stored vehicle, a lookup with its stored
\* registration_number and its owner's stored phone shows that vehicle.
C17_OwnerLookupShows ==
    \A v \in vehicles :
      \A r \in customer_lookup(v.registration_number, OwnerOf(v).phone) :
          r.branch = "shown" /\ r.vid = v.id

\* C16 (as claimed): no two stored customers share an email, or share a
\* phone, while their names differ when compared without case.
C16_OneNamePerContact ==
    \A c, d \in customers :
        (c.email = d.email \/ c.phone = d.phone)
        => Lower(c.name) = Lower(d.name)

FutureDate == "Issue date cannot be in the future!"
TooOldDate == "Issue date cannot be more than 20 years old!"

\* the errors the claim expects from the issue date alone
ExpectedDateErrors(day) ==
    Opt(day > Today, FutureDate) \o Opt(day < Today - 7300, TooOldDate)

OnToday(req) == [req EXCEPT !.issue_date = DateStr(Today)]

C13_DateState ==
    LoggedIn =>
      \A req \in ValidationForms :
        req.issue_date.text = "date" =>
          /\ RegisterErrorLists(OnToday(req)) = {<<>>}
               => RegisterErrorLists(req) = {ExpectedDateErrors(req.issue_date.day)}
          /\ \A vehicle \in vehicles :
               (SameFranchise(vehicle)
                  /\ EditErrorLists(vehicle, OnToday(req)) = {<<>>})
               => EditErrorLists(vehicle, req)
                    = {ExpectedDateErrors(req.issue_date.day)}

\* C13: with all other fields valid, register and edit report the future-date
\* error exactly when issue_date > today, the too-old error exactly when
\* issue_date < today - 7300 days, and nothing when today - 7300 <=
\* issue_date <= today (the request is accepted); every issue_date written
\* to a vehicle row is within these limits when it is written.
C13_IssueDateLimits ==
    /\ []C13_DateState
    /\ [][\A v \in vehicles' :
             v \notin vehicles
             => Today - 7300 <= v.issue_date /\ v.issue_date <= Today]_vars

\* a vehicle was registered with an issue date exactly 7300 days old
C13_Witness ==
    /\ last.op = "register" /\ last.branch \in {"customer_created", "customer_reused"}
    /\ \E v \in vehicles : v.id = last.vid /\ v.issue_date = Today - 7300

\* the errors of the rules a form violates by itself
FieldViolations(req) ==
    Opt(~RequiredFilled(req), "All required fields must be filled")
    \o EmailErrors(req)
    \o PhoneErrors(req)
    \o Opt(VehicleNoGiven(req) /\ ~VehiclePatternMatches(Clean(req.vehicle_no)),
           "Invalid Vehicle Number format")
    \o (IF req.issue_date.text = "date"
        THEN ExpectedDateErrors(req.issue_date.day) ELSE <<>>)

\* the errors of the rules a form violates against the rows others
UniquenessViolations(req, others) ==
    Opt(/\ Truthy(req.registration_number)
        /\ \E v \in others :
               SameIdentifier(req.registration_number, v.registration_number),
        "Registration Number already exists!")
    \o Opt(VehicleNoGiven(req)
             /\ \E v \in others : /\ v.vehicle_no # NULL
                                  /\ SameIdentifier(req.vehicle_no, v.vehicle_no[1]),
           "Vehicle number already exists!")

\* the identity-consistency errors of a form against the customers others
ConsistencyViolations(req, others) ==
    Opt(/\ Truthy(req.customer_name) /\ Truthy(req.customer_email)
        /\ \E c \in others : /\ c.email = req.customer_email
                             /\ Lower(c.name) # Lower(req.customer_name),
        EmailDifferentName)
    \o Opt(/\ Truthy(req.customer_name) /\ Truthy(req.customer_phone)
           /\ \E c \in others : /\ c.phone = req.customer_phone
                                /\ Lower(c.name) # Lower(req.customer_name),
           PhoneDifferentName)

Reported(violations, errors) == Range(violations) \subseteq Range(errors)

\* C12 (as claimed): the error list of register and of edit contains the
\* error of every rule the submitted values violate, whatever other rules
\* fail.
C12_ValidationExhaustive ==
    LoggedIn =>
      \A req \in ValidationForms :
        /\ \A errors \in RegisterErrorLists(req) :
             /\ Reported(FieldViolations(req), errors)
             /\ Reported(UniquenessViolations(req, vehicles), errors)
             /\ Reported(ConsistencyViolations(req, customers), errors)
        /\ \A vehicle \in vehicles :
             SameFranchise(vehicle) =>
               \A errors \in EditErrorLists(vehicle, req) :
                 /\ Reported(FieldViolations(req), errors)
                 /\ Reported(UniquenessViolations(req, vehicles \ {vehicle}),
                             errors)
                 /\ Reported(ConsistencyViolations(
                                 req, customers \ {OwnerOf(vehicle)}), errors)

----------------------------------------------------------------------------
(* C14 *)

\* request p ends in this step with its vehicle insert failed
InsertFails(p) ==
    /\ pending[p].pc = "vehicle"
    /\ pending'[p].pc = "idle"
    /\ last'.branch = "insert_failed"

\* C14: between overlapping register requests no two stored vehicles have
\* the same registration_number; and when a request that created a customer
\* has its vehicle insert fail, that customer row is still stored after the
\* step and the step adds no vehicle row
C14_NoVehicleAfterFailedInsert ==
    /\ [](\A v, w \in vehicles :
             v.registration_number = w.registration_number => v = w)
    /\ [][\A p \in Slots :
             InsertFails(p) /\ pending[p].created =>
               /\ \E c \in customers' :
                      /\ c.id = pending[p].owner_id
                      /\ c.name = pending[p].req.customer_name
                      /\ c.email = pending[p].req.customer_email
                      /\ c.phone = pending[p].req.customer_phone
               /\ vehicles' = vehicles]_vars

\* a vehicle insert has failed and a customer created by register is stored
\* that owns no vehicle, while the submitted number is stored once
C14_Witness ==
    /\ last.branch = "insert_failed"
    /\ \E c \in customers : c.id \in registered /\ ~Owned(c.id, vehicles)
    /\ Cardinality(vehicles) = 1

----------------------------------------------------------------------------
(* C15 *)

OneToZero == <<"1","2","3","4","5","6","7","8","9","0">>
ZeroToOne == <<"0","9","8","7","6","5","4","3","2","1">>

PhoneDigits == SelectSeq(phone_input, IsDigit)

PhoneChecked == phone_error # "unchecked"

\* C15 (as claimed): the two literal digit strings are rejected by
\* is_sequential, and validate_phone never returns "Invalid phone number
\* pattern."
C15_LiteralCheckRedundant ==
    PhoneChecked =>
        /\ PhoneDigits \in {OneToZero, ZeroToOne} => is_sequential(PhoneDigits)
        /\ phone_error # "Invalid phone number pattern."

\* C15 (amended): is_sequential is false on the two literal digit strings,
\* and validate_phone returns "Invalid phone number pattern." exactly for
\* the phones whose digits are one of them
C15_LiteralCheckDecides ==
    PhoneChecked =>
        /\ PhoneDigits \in {OneToZero, ZeroToOne} => ~is_sequential(PhoneDigits)
        /\ phone_error = "Invalid phone number pattern."
               <=> PhoneDigits \in {OneToZero, ZeroToOne}

\* validate_phone has returned the literal-pattern error for a dashed phone
C15_Witness ==
    /\ phone_error = "Invalid phone number pattern."
    /\ PhoneDigits # phone_input

============================================================================
